---- MODULE Spec2Model ----
(***************************************************************************)
(* A model of photon: the configuration loader (config.rs), the component  *)
(* registries (source/mod.rs, sink/mod.rs), the point model (point.rs),    *)
(* the runner (topology.rs, main.rs) and the day enumeration of the RTE    *)
(* archive source (source/rte/mod.rs).                                     *)
(*                                                                         *)
(* Spec      one execution of main: config::read, then topology::run.      *)
(* SpecDays  one iteration of iter_days(from, to) to exhaustion.           *)
(***************************************************************************)
EXTENDS Integers, Sequences, FiniteSets, TLC

VARIABLES
    cfg,            \* the configuration file: [pre, sources, sinks], entries in declared order
    pc,             \* position of main: read / build_* / collecting / delivering / exit_*
    todo,           \* entries of the HashMap being iterated that are not yet visited
    data_sources,   \* Topology.data_sources: Seq of Component [name, component]
    sinks,          \* Topology.sinks: Seq of Component [name, component]
    builds,         \* history: every Registration::build call and what it did
    points,         \* run's accumulating batch (let mut points)
    i,              \* position of the loop over topology.data_sources
    j,              \* position of the loop over topology.sinks
    log,            \* history: every collect() and sink() call, in call order
    err,            \* the error main returns (kind "None" while there is none)
    days_in,        \* the arguments <<from, to>> of iter_days
    day_iter,       \* DaysIterator(self.0, self.1) as [cur, to]
    days,           \* the days yielded so far
    days_pc,        \* idle / iterating / done / panicked
    table,          \* the records of a day's extracted file, after the header row
    read_pc,        \* idle / reading / returned
    read_res,       \* what read(path) came to: [kind, rows, err, validated]
    line,           \* the DailyRow handed to Point::from
    conv_point,     \* the Point it came to (<<>> before)
    conv_pc,         \* idle / converting / converted
    pts,            \* a Points batch that merge_with and tag_all are called on
    pts_calls,      \* history: the calls made on pts, each with the batch before and after
    pts_pc,          \* position of the caller of the Points methods
    ifx_host,       \* InfluxDB.host: a Url that can or cannot be a base
    ifx_points,     \* the batch given to InfluxDB::sink
    ifx_sent,       \* history: the bodies of the write requests sent
    ifx_response,   \* the response of send(): none, or <<[status, body, readable]>>
    ifx_result,     \* what sink() returned, or that it panicked
    ifx_pc,          \* position of InfluxDB::sink
    rte_cfg,        \* GlobalConfig of the rte source: [from_date, to_date]
    rte_iter,       \* the DaysIterator of collect as [cur, to]
    rte_day,        \* date of the running pass of the loop of collect
    rte_points,     \* collect's accumulating batch (let mut points)
    rte_log,        \* history: the stages run, each with its day and result
    rte_res,        \* what collect returned
    rte_status,     \* HTTP status of the response download stored last, 0 when none
    rte_pc,          \* position of collect
    val_in,         \* the integer given to Value::from as [type, val]
    val_out,        \* the Value it returned
    val_pc,          \* position of the caller of Value::from
    eco_cfg,        \* GlobalConfig of the rte-ecowatt source: [from_date, to_date]
    eco_response,   \* what the request gave: <<>> for an error, or <<signals>>
    eco_res,        \* what EcoWatt::collect returned
    eco_pc          \* position of EcoWatt::collect

vars == <<cfg, pc, todo, data_sources, sinks, builds, points, i, j, log, err,
          days_in, day_iter, days, days_pc, table, read_pc, read_res,
          line, conv_point, conv_pc,
          pts, pts_calls, pts_pc,
          ifx_host, ifx_points, ifx_sent, ifx_response, ifx_result, ifx_pc,
          rte_cfg, rte_iter, rte_day, rte_points, rte_log, rte_res, rte_status, rte_pc,
          val_in, val_out, val_pc,
          eco_cfg, eco_response, eco_res, eco_pc>>

mainVars == <<cfg, pc, todo, data_sources, sinks, builds, points, i, j, log, err>>
daysVars == <<days_in, day_iter, days, days_pc>>
readVars == <<table, read_pc, read_res>>
convVars == <<line, conv_point, conv_pc>>
ptsVars == <<pts, pts_calls, pts_pc>>
influxVars == <<ifx_host, ifx_points, ifx_sent, ifx_response, ifx_result, ifx_pc>>
rteVars == <<rte_cfg, rte_iter, rte_day, rte_points, rte_log, rte_res, rte_status, rte_pc>>
valVars == <<val_in, val_out, val_pc>>
ecoVars == <<eco_cfg, eco_response, eco_res, eco_pc>>

\* What the steps of one part of the program leave alone.
notMain == <<daysVars, readVars, convVars, ptsVars, influxVars, rteVars, valVars, ecoVars>>
notDays == <<mainVars, readVars, convVars, ptsVars, influxVars, rteVars, valVars, ecoVars>>
notRead == <<mainVars, daysVars, convVars, ptsVars, influxVars, rteVars, valVars, ecoVars>>
notConv == <<mainVars, daysVars, readVars, ptsVars, influxVars, rteVars, valVars, ecoVars>>
notPts == <<mainVars, daysVars, readVars, convVars, influxVars, rteVars, valVars, ecoVars>>
notInflux == <<mainVars, daysVars, readVars, convVars, ptsVars, rteVars, valVars, ecoVars>>
notRte == <<mainVars, daysVars, readVars, convVars, ptsVars, influxVars, valVars, ecoVars>>
notVal == <<mainVars, daysVars, readVars, convVars, ptsVars, influxVars, rteVars, ecoVars>>
notEco == <<mainVars, daysVars, readVars, convVars, ptsVars, influxVars, rteVars, valVars>>

----------------------------------------------------------------------------
(* Bounds of the model.                                                    *)

\* Largest number of entries of the configuration's sources map.
MaxSources == 2
\* Largest number of entries of the configuration's sinks map.
MaxSinks == 2
\* Largest number of points one collect() call returns.
MaxPoints == 2

\* The days are numbered MinDate..MaxDate; MaxDate stands for chrono's last
\* representable date (NaiveDate::MAX), the one date succ() has no successor for.
MinDate == 0
MaxDate == 7

\* Width of the integers of the model: IntBits stands for the 64 bits of u64
\* and i64, so that U64Max stands for u64::MAX and I64Max for i64::MAX.
IntBits == 8
U64Max == 2^IntBits - 1
I64Max == 2^(IntBits - 1) - 1
I64Min == -(2^(IntBits - 1))

\* Calls made on one Points batch.
MaxCalls == 2

\* Days before the last representable date that the rte source is configured with.
MaxDays == 3

SeqsUpTo(S, n) == UNION {[1..k -> S] : k \in 0..n}

----------------------------------------------------------------------------
(* point.rs                                                                *)

\* A HashMap<String, _> is a set of <<key, value>> pairs with unique keys.
MapGet(m, k) == {p[2] : p \in {q \in m : q[1] = k}}

\* HashMap::insert keeps the old value when the key is present
\* (the behaviour of entry(k).or_insert(v)).
MapInsert_KeepOld(m, k, v) == IF \E p \in m : p[1] = k THEN m ELSE m \cup {<<k, v>>}

\* HashMap::insert(k, v): the entry for k is replaced.
MapInsert(m, k, v) == {p \in m : p[1] # k} \cup {<<k, v>>}

\* Value::Integer(i64)
Integer(v) == [kind |-> "Integer", v |-> v]

\* val as i64 on a u64: the bits are kept, values above i64::MAX wrap.
AsI64(val) == IF val > I64Max THEN val - 2^IntBits ELSE val

\* The integer types with an impl From<..> for Value; bits is the width, on
\* the scale that makes 64 bits IntBits.
IntTypes ==
    {[name |-> "i8", bits |-> IntBits \div 8, signed |-> TRUE],
     [name |-> "i16", bits |-> IntBits \div 4, signed |-> TRUE],
     [name |-> "i32", bits |-> IntBits \div 2, signed |-> TRUE],
     [name |-> "i64", bits |-> IntBits, signed |-> TRUE],
     [name |-> "u8", bits |-> IntBits \div 8, signed |-> FALSE],
     [name |-> "u16", bits |-> IntBits \div 4, signed |-> FALSE],
     [name |-> "u32", bits |-> IntBits \div 2, signed |-> FALSE],
     [name |-> "u64", bits |-> IntBits, signed |-> FALSE]}

\* impl From<i8> ... From<u64> for Value: Self::Integer(val as i64)
ValueFromInt(t, val) == Integer(AsI64(val))

\* impl From<u64> for Value
ValueFromU64(val) == Integer(AsI64(val))

\* impl From<i64> for Value
ValueFromI64(val) == Integer(val)

\* Point { name, tags, fields, timestamp }; Option<DateTime> is a sequence of
\* length 0 (None) or 1 (Some).
PointEco2mix ==
    [name |-> "eco2mix", tags |-> {}, fields |-> {<<"co2", Integer(50)>>}, timestamp |-> <<1>>]
PointPreTagged ==
    [name |-> "ecowatt_signal", tags |-> {<<"source", "preset">>},
     fields |-> {<<"value", Integer(1)>>}, timestamp |-> <<2>>]
PointNoTime ==
    [name |-> "ecowatt_signal", tags |-> {<<"region", "fr">>},
     fields |-> {<<"value", Integer(3)>>}, timestamp |-> <<>>]

\* The points a DataSource::collect may hand back.
PointPool == {PointEco2mix, PointPreTagged, PointNoTime}

\* Points::new()
PointsNew == <<>>

\* tag_all on a tag list that keeps an earlier entry of the key next to the new one.
TagAll_Duplicate(ps, key, value) ==
    [k \in 1..Len(ps) |-> [ps[k] EXCEPT !.tags = @ \cup {<<key, value>>}]]

\* Points::tag_all(key, value): HashMap::insert on every point
TagAll(ps, key, value) ==
    [k \in 1..Len(ps) |-> [ps[k] EXCEPT !.tags = MapInsert(@, key, value)]]

\* merge_with that keeps only the argument (self.0 = other.0).
MergeWith_Replace(self, other) == other

\* merge_with that puts the argument in front.
MergeWith_Prepend(self, other) == other \o self

\* Points::merge_with(other): Vec::append
MergeWith(self, other) == self \o other

----------------------------------------------------------------------------
(* source/mod.rs, sink/mod.rs: the registries                              *)

\* inventory::submit! of the sources and of the sinks: [name, schema].
SourceRegistrations ==
    {[name |-> "rte", schema |-> "rte::Config"],
     [name |-> "rte-ecowatt", schema |-> "ecowatt::Config"]}
SinkRegistrations ==
    {[name |-> "console", schema |-> "console::Config"],
     [name |-> "influxdb", schema |-> "influxdb::Config"]}

Registrations(kind) == IF kind = "source" THEN SourceRegistrations ELSE SinkRegistrations

\* The raw toml::Value of an entry: "valid" coerces to the schema it is given to
\* and builds; "malformed" coerces to no schema; "bad_host" is an influxdb table
\* whose host is no URL.
RawValues == {"valid", "malformed", "bad_host"}

\* value.try_into::<Schema>()
Coerces(schema, value) ==
    CASE value = "valid" -> TRUE
      [] value = "malformed" -> FALSE
      [] value = "bad_host" -> schema = "influxdb::Config"

\* DataSourceConfig::build / SinkConfig::build of each schema: only influxdb's
\* can fail (host.parse()).
TypeBuildOk(schema, value) ==
    IF schema = "influxdb::Config" THEN value # "bad_host" ELSE TRUE

\* Results of Registration::build. builder names the registration whose builder
\* ran ("none" when no builder ran).
BuildOk(r, name) ==
    [kind |-> "Ok", name |-> name, builder |-> r.name, component |-> r.schema]
BuildErr(kind, name, builder) ==
    [kind |-> kind, name |-> name, builder |-> builder, component |-> "none"]

\* A builder that reports a failed coercion as Config(cause, name).
Builder_CoercionAsConfig(r, name, value) ==
    IF ~Coerces(r.schema, value) THEN BuildErr("Config", name, r.name)
    ELSE IF ~TypeBuildOk(r.schema, value) THEN BuildErr("Config", name, r.name)
    ELSE BuildOk(r, name)

\* The closure of Registration::new: try_into or Error::Toml(cause), then
\* config.build or Error::Config(cause, name).
Builder(r, name, value) ==
    IF ~Coerces(r.schema, value) THEN BuildErr("Toml", "", r.name)
    ELSE IF ~TypeBuildOk(r.schema, value) THEN BuildErr("Config", name, r.name)
    ELSE BuildOk(r, name)

\* str::to_lowercase on the names of the model.
Lower(s) ==
    CASE s = "RTE" -> "rte"
      [] s = "Console" -> "console"
      [] OTHER -> s

\* A lookup that ignores case.
Lookup_IgnoreCase(kind, name) ==
    {r \in Registrations(kind) : Lower(r.name) = Lower(name)}

\* registrations.get(name) on the HashMap of name -> registration: the set of
\* hits (empty for None).
Lookup(kind, name) == {r \in Registrations(kind) : r.name = name}

\* Registration::build(name, value, ..)
RegistrationBuild(kind, name, value) ==
    IF Lookup(kind, name) = {} THEN BuildErr("Unknown", name, "none")
    ELSE Builder(CHOOSE r \in Lookup(kind, name) : TRUE, name, value)

----------------------------------------------------------------------------
(* config.rs                                                               *)

SourceKeys == {"rte", "RTE", "rte-ecowatt"}
SinkKeys == {"console", "Console", "influxdb"}

\* Entries kept as a list, where a key may come twice.
DistinctKeys_Any(s) == TRUE

\* sources and sinks are HashMaps: one entry per key
DistinctKeys(s) == \A a, b \in 1..Len(s) : s[a].key = s[b].key => a = b

\* The files main may be given. pre is what happens before any component is
\* built: the file cannot be read, is no TOML of the ConfigRaw shape, or holds
\* a date that does not parse.
Configs ==
    [pre : {"ok", "ReadFile", "Toml", "DateFormat"},
     sources : {s \in SeqsUpTo([key : SourceKeys, value : {"valid", "malformed"}], MaxSources) :
                    DistinctKeys(s)},
     sinks : {s \in SeqsUpTo([key : SinkKeys, value : RawValues], MaxSinks) :
                    DistinctKeys(s)}]

NoCause == [kind |-> "None", name |-> ""]
NoError == [kind |-> "None", name |-> "", cause |-> NoCause]

\* Error::Source(e, k) / Error::Sink(e, k)
ConfigError(kind, res, k) ==
    [kind |-> IF kind = "source" THEN "Source" ELSE "Sink", name |-> k,
     cause |-> [kind |-> res.kind, name |-> res.name]]

\* A component that fails to build is left out and the iteration goes on.
OnBuildErr_Skip(phase) == phase

\* .map_err(..)? inside the closure and collect::<Result<Vec<_>, _>>()?: the
\* first Err ends the iteration and leaves read.
OnBuildErr(phase) == "exit_err"

\* The parts of the program a specification does not run stay parked.
DaysParked ==
    /\ days_in = <<MinDate, MinDate>>
    /\ day_iter = [cur |-> MinDate, to |-> MinDate]
    /\ days = <<>>
    /\ days_pc = "idle"

ReadParked ==
    /\ table = <<>>
    /\ read_pc = "idle"
    /\ read_res = <<>>

ConvParked ==
    /\ line = <<>>
    /\ conv_point = <<>>
    /\ conv_pc = "idle"

PtsParked ==
    /\ pts = <<>>
    /\ pts_calls = <<>>
    /\ pts_pc = "idle"

InfluxParked ==
    /\ ifx_host = "none"
    /\ ifx_points = <<>>
    /\ ifx_sent = <<>>
    /\ ifx_response = <<>>
    /\ ifx_result = <<>>
    /\ ifx_pc = "idle"

RteParked ==
    /\ rte_cfg = [from_date |-> MinDate, to_date |-> MinDate]
    /\ rte_iter = [cur |-> MinDate, to |-> MinDate]
    /\ rte_day = MinDate
    /\ rte_points = <<>>
    /\ rte_log = <<>>
    /\ rte_res = <<>>
    /\ rte_status = 0
    /\ rte_pc = "idle"

ValParked ==
    /\ val_in = <<>>
    /\ val_out = <<>>
    /\ val_pc = "idle"

EcoParked ==
    /\ eco_cfg = [from_date |-> MinDate, to_date |-> MinDate]
    /\ eco_response = <<>>
    /\ eco_res = <<>>
    /\ eco_pc = "idle"

MainParked ==
    /\ cfg = [pre |-> "ok", sources |-> <<>>, sinks |-> <<>>]
    /\ pc = "idle"
    /\ todo = {}
    /\ data_sources = <<>>
    /\ sinks = <<>>
    /\ builds = <<>>
    /\ points = PointsNew
    /\ i = 1
    /\ j = 1
    /\ log = <<>>
    /\ err = NoError

Init ==
    /\ cfg \in Configs
    /\ pc = "read"
    /\ todo = {}
    /\ data_sources = <<>>
    /\ sinks = <<>>
    /\ builds = <<>>
    /\ points = PointsNew
    /\ i = 1
    /\ j = 1
    /\ log = <<>>
    /\ err = NoError
    /\ DaysParked
    /\ ReadParked
    /\ ConvParked
    /\ PtsParked
    /\ InfluxParked
    /\ RteParked
    /\ ValParked
    /\ EcoParked

\* read: read_to_string, toml::from_str, to_config (each with ?), then the
\* iteration over config.sources starts.
Read ==
    /\ pc = "read"
    /\ IF cfg.pre # "ok"
       THEN /\ pc' = "exit_err"
            /\ err' = [kind |-> cfg.pre, name |-> "", cause |-> NoCause]
            /\ todo' = todo
       ELSE /\ pc' = "build_sources"
            /\ todo' = 1..Len(cfg.sources)
            /\ err' = err
    /\ UNCHANGED <<cfg, data_sources, sinks, builds, points, i, j, log>>
    /\ UNCHANGED notMain

\* One step of config.sources.into_iter().map(..): the HashMap hands out its
\* entries in an order of its own.
BuildSource ==
    /\ pc = "build_sources"
    /\ \E n \in todo :
        LET k == cfg.sources[n].key
            res == RegistrationBuild("source", k, cfg.sources[n].value)
        IN  /\ builds' = Append(builds, [kind |-> "source", name |-> k,
                                         value |-> cfg.sources[n].value, res |-> res])
            /\ IF res.kind = "Ok"
               THEN /\ data_sources' = Append(data_sources,
                                              [name |-> k, component |-> res.component])
                    /\ todo' = todo \ {n}
                    /\ UNCHANGED <<pc, err>>
               ELSE /\ pc' = OnBuildErr(pc)
                    /\ err' = ConfigError("source", res, k)
                    /\ todo' = IF OnBuildErr(pc) = pc THEN todo \ {n} ELSE todo
                    /\ UNCHANGED data_sources
    /\ UNCHANGED <<cfg, sinks, points, i, j, log>>
    /\ UNCHANGED notMain

\* collect::<Result<Vec<_>, _>>()? of the sources is Ok: the sinks follow.
SourcesBuilt ==
    /\ pc = "build_sources"
    /\ todo = {}
    /\ pc' = "build_sinks"
    /\ todo' = 1..Len(cfg.sinks)
    /\ UNCHANGED <<cfg, data_sources, sinks, builds, points, i, j, log, err>>
    /\ UNCHANGED notMain

\* One step of config.sinks.into_iter().map(..).
BuildSink ==
    /\ pc = "build_sinks"
    /\ \E n \in todo :
        LET k == cfg.sinks[n].key
            res == RegistrationBuild("sink", k, cfg.sinks[n].value)
        IN  /\ builds' = Append(builds, [kind |-> "sink", name |-> k,
                                         value |-> cfg.sinks[n].value, res |-> res])
            /\ IF res.kind = "Ok"
               THEN /\ sinks' = Append(sinks, [name |-> k, component |-> res.component])
                    /\ todo' = todo \ {n}
                    /\ UNCHANGED <<pc, err>>
               ELSE /\ pc' = OnBuildErr(pc)
                    /\ err' = ConfigError("sink", res, k)
                    /\ todo' = IF OnBuildErr(pc) = pc THEN todo \ {n} ELSE todo
                    /\ UNCHANGED sinks
    /\ UNCHANGED <<cfg, data_sources, points, i, j, log>>
    /\ UNCHANGED notMain

\* read returns Ok(Topology); main calls topology::run, which starts with
\* Points::new().
TopologyBuilt ==
    /\ pc = "build_sinks"
    /\ todo = {}
    /\ pc' = "collecting"
    /\ points' = PointsNew
    /\ i' = 1
    /\ UNCHANGED <<cfg, todo, data_sources, sinks, builds, j, log, err>>
    /\ UNCHANGED notMain

----------------------------------------------------------------------------
(* topology.rs                                                             *)

\* What DataSource::collect hands back.
CollectResults == SeqsUpTo(PointPool, MaxPoints)

Event(op, name, result, ps) == [op |-> op, name |-> name, result |-> result, points |-> ps]

\* The first loop is left as soon as one source was collected.
SourcesDrained_AfterFirst == i > 1 \/ i > Len(data_sources)

\* for data_source in topology.data_sources: the loop is over
SourcesDrained == i > Len(data_sources)

\* An error of collect() is dropped and the loop goes on.
AfterCollectErr_Continue == "collecting"

\* An error of collect() is taken for the end of run.
AfterCollectErr_Ok == "exit_ok"

\* collect(..)? : the error leaves run
AfterCollectErr == "exit_err"

\* An error of sink() is dropped and the loop goes on.
AfterSinkErr_Continue == "delivering"

\* sink.component.sink(&points)? : the error leaves run
AfterSinkErr == "exit_err"

\* The loop stays on the component it has just called.
NextComponent_Same(k) == k

\* for .. in topology.data_sources / topology.sinks: on to the next component
NextComponent(k) == k + 1

\* collect(name, data_source): collect()?, tag_all("source", name)
CollectTagged(name, returned) == TagAll(returned, "source", name)

\* One pass of the first loop of run, collect() returning Ok.
CollectOk ==
    /\ pc = "collecting"
    /\ ~SourcesDrained
    /\ \E returned \in CollectResults :
        /\ points' = MergeWith(points, CollectTagged(data_sources[i].name, returned))
        /\ log' = Append(log, Event("collect", data_sources[i].name, "ok", returned))
    /\ i' = NextComponent(i)
    /\ UNCHANGED <<cfg, pc, todo, data_sources, sinks, builds, j, err>>
    /\ UNCHANGED notMain

\* One pass of the first loop of run, collect() returning Err.
CollectErr ==
    /\ pc = "collecting"
    /\ ~SourcesDrained
    /\ log' = Append(log, Event("collect", data_sources[i].name, "err", <<>>))
    /\ pc' = AfterCollectErr
    /\ i' = IF AfterCollectErr = "collecting" THEN i + 1 ELSE i
    /\ err' = [kind |-> "Collect", name |-> data_sources[i].name, cause |-> NoCause]
    /\ UNCHANGED <<cfg, todo, data_sources, sinks, builds, points, j>>
    /\ UNCHANGED notMain

\* collect() panics (an unwrap inside a source): the process ends there.
CollectPanic ==
    /\ pc = "collecting"
    /\ ~SourcesDrained
    /\ log' = Append(log, Event("collect", data_sources[i].name, "panic", <<>>))
    /\ pc' = "panicked"
    /\ UNCHANGED <<cfg, todo, data_sources, sinks, builds, points, i, j, err>>
    /\ UNCHANGED notMain

\* The first loop of run ends and the second starts.
StartDelivery ==
    /\ pc = "collecting"
    /\ SourcesDrained
    /\ pc' = "delivering"
    /\ j' = 1
    /\ UNCHANGED <<cfg, todo, data_sources, sinks, builds, points, i, log, err>>
    /\ UNCHANGED notMain

\* One pass of the second loop of run: sink(&points) returns Ok or Err, or
\* panics (an expect inside a sink); the shared borrow leaves points as it is.
Deliver ==
    /\ pc = "delivering"
    /\ j <= Len(sinks)
    /\ \E result \in {"ok", "err", "panic"} :
        /\ log' = Append(log, Event("sink", sinks[j].name, result, points))
        /\ CASE result = "ok" ->
                /\ j' = NextComponent(j)
                /\ UNCHANGED <<pc, err>>
             [] result = "err" ->
                /\ pc' = AfterSinkErr
                /\ j' = IF AfterSinkErr = "delivering" THEN j + 1 ELSE j
                /\ err' = [kind |-> "Deliver", name |-> sinks[j].name, cause |-> NoCause]
             [] result = "panic" ->
                /\ pc' = "panicked"
                /\ UNCHANGED <<j, err>>
    /\ UNCHANGED <<cfg, todo, data_sources, sinks, builds, points, i>>
    /\ UNCHANGED notMain

\* run returns Ok(()) and so does main.
Finish ==
    /\ pc = "delivering"
    /\ j > Len(sinks)
    /\ pc' = "exit_ok"
    /\ UNCHANGED <<cfg, todo, data_sources, sinks, builds, points, i, j, log, err>>
    /\ UNCHANGED notMain

Next ==
    \/ Read
    \/ BuildSource
    \/ SourcesBuilt
    \/ BuildSink
    \/ TopologyBuilt
    \/ CollectOk
    \/ CollectErr
    \/ CollectPanic
    \/ StartDelivery
    \/ Deliver
    \/ Finish

Spec == Init /\ [][Next]_vars

\* main runs on one thread and every call it makes returns or panics: a step
\* that can be taken is taken.
SpecLive == Init /\ [][Next]_vars /\ WF_vars(Next)

----------------------------------------------------------------------------
(* source/rte/mod.rs: DaysIterator                                         *)

Dates == MinDate..MaxDate

\* NaiveDate::succ(): the next day; it panics on the last representable date
\* (succ_opt().expect("out of bound")). <<>> stands for the panic.
Succ(d) == IF d = MaxDate THEN <<>> ELSE <<d + 1>>

\* iter_days(from, to) == DaysIterator(from, to)
IterDays(from, to) == [cur |-> from, to |-> to]

\* main is not running; iter_days is called with any two dates.
InitDays ==
    /\ MainParked
    /\ ReadParked
    /\ days_in \in Dates \X Dates
    /\ day_iter = IterDays(days_in[1], days_in[2])
    /\ days = <<>>
    /\ days_pc = "iterating"
    /\ ConvParked
    /\ PtsParked
    /\ InfluxParked
    /\ RteParked
    /\ ValParked
    /\ EcoParked

\* DaysIterator::next() returning Some(curr): curr.succ() is computed first.
DaysNextSome ==
    /\ days_pc = "iterating"
    /\ day_iter.cur <= day_iter.to
    /\ Succ(day_iter.cur) # <<>>
    /\ day_iter' = [day_iter EXCEPT !.cur = Succ(day_iter.cur)[1]]
    /\ days' = Append(days, day_iter.cur)
    /\ UNCHANGED <<days_in, days_pc>>
    /\ UNCHANGED notDays

\* DaysIterator::next() panicking in curr.succ().
DaysNextPanic ==
    /\ days_pc = "iterating"
    /\ day_iter.cur <= day_iter.to
    /\ Succ(day_iter.cur) = <<>>
    /\ days_pc' = "panicked"
    /\ UNCHANGED <<days_in, day_iter, days>>
    /\ UNCHANGED notDays

\* DaysIterator::next() returning None.
DaysNextNone ==
    /\ days_pc = "iterating"
    /\ ~(day_iter.cur <= day_iter.to)
    /\ days_pc' = "done"
    /\ UNCHANGED <<days_in, day_iter, days>>
    /\ UNCHANGED notDays

NextDays ==
    \/ DaysNextSome
    \/ DaysNextPanic
    \/ DaysNextNone

SpecDays == InitDays /\ [][NextDays]_vars

----------------------------------------------------------------------------
(* source/rte/mod.rs: records and rows                                     *)

\* Largest number of records of a day's table.
MaxRows == 3

\* const END_RECORD: b"RTE ne pourra"
END_RECORD == <<"R", "T", "E", " ", "n", "e", " ", "p", "o", "u", "r", "r", "a">>

\* b"France"
France == <<"F", "r", "a", "n", "c", "e">>

\* A ByteRecord is the sequence of its columns; column 0 is a sequence of
\* characters, the other columns are strings.
\* record.get(index): Some(column) or None, as a sequence of length 1 or 0.
Get(record, index) == IF index + 1 <= Len(record) THEN <<record[index + 1]>> ELSE <<>>

\* t.get(..n): the first n bytes, None when t is shorter.
GetPrefix(t, n) == IF n <= Len(t) THEN <<SubSeq(t, 1, n)>> ELSE <<>>

\* A first column is the end record only when it is END_RECORD and nothing more.
IsEndRecord_Exact(record) ==
    IF Get(record, 0) = <<>> THEN FALSE ELSE Get(record, 0)[1] = END_RECORD

\* is_end_record(record): the first column starts with END_RECORD
IsEndRecord(record) ==
    IF Get(record, 0) = <<>> THEN FALSE
    ELSE LET e == GetPrefix(Get(record, 0)[1], Len(END_RECORD))
         IN  IF e = <<>> THEN FALSE ELSE e[1] = END_RECORD

\* NaiveDate::parse_from_str(s, "%Y-%m-%d"): the day as days since 1970-01-01,
\* or <<>> for a ParseError.
ParseDate(s) ==
    CASE s = "2022-05-01" -> <<19113>>
      [] s = "2022-03-27" -> <<19078>>
      [] s = "2022-10-30" -> <<19295>>
      [] OTHER -> <<>>

\* NaiveTime::parse_from_str(s, "%H:%M"): the minute of the day, or <<>>.
ParseTime(s) ==
    CASE s = "00:00" -> <<0>>
      [] s = "00:15" -> <<15>>
      [] s = "02:30" -> <<150>>
      [] OTHER -> <<>>

\* The offsets from UTC, in minutes, that Europe/Paris gives a local time: none
\* in the hour skipped on 2022-03-27, two in the hour repeated on 2022-10-30.
ParisOffsets(day, minute) ==
    CASE day = 19078 -> (IF minute < 120 THEN {60} ELSE IF minute < 180 THEN {} ELSE {120})
      [] day = 19295 -> (IF minute < 120 THEN {120} ELSE IF minute < 180 THEN {60, 120} ELSE {60})
      [] day = 19113 -> {120}
      [] OTHER -> {60}

\* u64::from_str: digits only, within the width.
ParseU64(s) ==
    CASE s = "0" -> <<0>>
      [] s = "7" -> <<7>>
      [] s = "50" -> <<50>>
      [] s = "200" -> <<200>>
      [] s = "255" -> <<U64Max>>
      [] OTHER -> <<>>

\* i64::from_str: an optional sign and digits, within the width.
ParseI64(s) ==
    CASE s = "0" -> <<0>>
      [] s = "7" -> <<7>>
      [] s = "50" -> <<50>>
      [] s = "-30" -> <<-30>>
      [] OTHER -> <<>>

\* The numeric columns of from_record, in the order of the struct literal.
FieldSpecs ==
    << [index |-> 4, name |-> "Generation", key |-> "generation_total", signed |-> FALSE],
       [index |-> 5, name |-> "Prediction D-1", key |-> "prediction_yesterday", signed |-> FALSE],
       [index |-> 6, name |-> "Prediction", key |-> "prediction_now", signed |-> FALSE],
       [index |-> 7, name |-> "Oil", key |-> "oil", signed |-> FALSE],
       [index |-> 8, name |-> "Coal", key |-> "coal", signed |-> FALSE],
       [index |-> 9, name |-> "Gas", key |-> "gas", signed |-> FALSE],
       [index |-> 10, name |-> "Nuclear", key |-> "nuclear", signed |-> FALSE],
       [index |-> 11, name |-> "Wind", key |-> "wind", signed |-> FALSE],
       [index |-> 12, name |-> "Solar", key |-> "solar", signed |-> FALSE],
       [index |-> 13, name |-> "Hydro", key |-> "hydro", signed |-> FALSE],
       [index |-> 14, name |-> "Pumped storage", key |-> "pumped_storage", signed |-> TRUE],
       [index |-> 15, name |-> "Bioenergy", key |-> "bioenergy", signed |-> FALSE],
       [index |-> 17, name |-> "CO2", key |-> "co2", signed |-> FALSE] >>

FieldKeys == {FieldSpecs[k].key : k \in 1..Len(FieldSpecs)}

\* DataError; scope is the text InvalidScope carries.
DataErr(kind, name, scope) == [kind |-> kind, name |-> name, scope |-> scope]
NoDataErr == DataErr("None", "", <<>>)

\* DailyRow::get_field(record, index, name): [kind, value, err]
GetField(record, f) ==
    IF Get(record, f.index) = <<>>
    THEN [kind |-> "Err", value |-> 0, err |-> DataErr("MissingField", f.name, <<>>)]
    ELSE LET parsed == IF f.signed THEN ParseI64(Get(record, f.index)[1])
                       ELSE ParseU64(Get(record, f.index)[1])
         IN  IF parsed = <<>>
             THEN [kind |-> "Err", value |-> 0, err |-> DataErr("Parse", f.name, <<>>)]
             ELSE [kind |-> "Ok", value |-> parsed[1], err |-> NoDataErr]

\* Every scope passes.
ScopeOk_Any(scope) == TRUE

\* scope != b"France" is an InvalidScope
ScopeOk(scope) == scope = France

\* Results of from_record: Ok(DailyRow), Err(DataError), or a panic.
RowOk(row) == [kind |-> "Ok", row |-> row, err |-> NoDataErr]
RowErr(e) == [kind |-> "Err", row |-> <<>>, err |-> e]
RowPanic == [kind |-> "Panic", row |-> <<>>, err |-> NoDataErr]

\* The numeric fields, the last column that is missing or does not parse
\* deciding the error.
FromRecordFields_Last(record, day, minute) ==
    LET bad == {k \in 1..Len(FieldSpecs) : GetField(record, FieldSpecs[k]).kind = "Err"}
    IN  IF bad # {}
        THEN RowErr(GetField(record, FieldSpecs[CHOOSE k \in bad : \A m \in bad : k >= m]).err)
        ELSE RowOk([date |-> [day |-> day, minute |-> minute,
                              offset |-> CHOOSE o \in ParisOffsets(day, minute) : TRUE],
                    values |-> {<<FieldSpecs[k].key, GetField(record, FieldSpecs[k]).value>> :
                                    k \in 1..Len(FieldSpecs)}])

\* The numeric fields once the date and time are read: the first column that
\* is missing or does not parse decides.
FromRecordFields(record, day, minute) ==
    LET bad == {k \in 1..Len(FieldSpecs) : GetField(record, FieldSpecs[k]).kind = "Err"}
    IN  IF bad # {}
        THEN RowErr(GetField(record, FieldSpecs[CHOOSE k \in bad : \A m \in bad : k <= m]).err)
        ELSE RowOk([date |-> [day |-> day, minute |-> minute,
                              offset |-> CHOOSE o \in ParisOffsets(day, minute) : TRUE],
                    values |-> {<<FieldSpecs[k].key, GetField(record, FieldSpecs[k]).value>> :
                                    k \in 1..Len(FieldSpecs)}])

\* DailyRow::from_record(record). Paris.ymd(..).and_hms(..) panics when the
\* local time does not exist or is ambiguous.
FromRecord(record) ==
    IF Get(record, 0) = <<>> THEN RowErr(DataErr("MissingField", "Perimetre", <<>>))
    ELSE IF ~ScopeOk(Get(record, 0)[1]) THEN RowErr(DataErr("InvalidScope", "", Get(record, 0)[1]))
    ELSE IF Get(record, 2) = <<>> THEN RowErr(DataErr("MissingField", "Date", <<>>))
    ELSE IF ParseDate(Get(record, 2)[1]) = <<>> THEN RowErr(DataErr("Date", "", <<>>))
    ELSE IF Get(record, 3) = <<>> THEN RowErr(DataErr("MissingField", "Time", <<>>))
    ELSE IF ParseTime(Get(record, 3)[1]) = <<>> THEN RowErr(DataErr("Date", "", <<>>))
    ELSE LET day == ParseDate(Get(record, 2)[1])[1]
             minute == ParseTime(Get(record, 3)[1])[1]
         IN  IF Cardinality(ParisOffsets(day, minute)) # 1 THEN RowPanic
             ELSE FromRecordFields(record, day, minute)

\* Results of read: Ok(rows), Err(DataError) or a panic; validated lists the
\* records handed to from_record, by their position in the table.
ReadResult(kind, rows, e, validated) ==
    [kind |-> kind, rows |-> rows, err |-> e, validated |-> validated]

RECURSIVE ReadFrom(_, _, _)
\* The loop of read from record k on, rows being the Vec so far.
ReadFrom(t, k, rows) ==
    IF k > Len(t) THEN ReadResult("Ok", rows, NoDataErr, 1..(k - 1))
    ELSE IF IsEndRecord(t[k]) THEN ReadResult("Ok", rows, NoDataErr, 1..(k - 1))
    ELSE LET r == FromRecord(t[k])
         IN  IF r.kind = "Ok" THEN ReadFrom(t, k + 1, Append(rows, r.row))
             ELSE ReadResult(r.kind, <<>>, r.err, 1..k)

\* read(path) on a file holding the records t after its header row.
ReadTable(t) == ReadFrom(t, 1, <<>>)

\* Records of the feed. Columns 1 and 16 are not read.
Record(scope, date, time, gen, pumped, co2) ==
    <<scope, "Donnees temps reel", date, time, gen, "50", "50", "0", "0", "7", "200", "7", "0",
      "50", pumped, "7", "", co2>>

RecordA == Record(France, "2022-05-01", "00:00", "200", "-30", "50")
RecordB == Record(France, "2022-05-01", "00:15", "255", "7", "7")
RecordEnd == <<END_RECORD \o <<" ", "e", "t", "r", "e">>>>
RecordEndExact == <<END_RECORD>>
RecordShortPrefix == <<SubSeq(END_RECORD, 1, 6)>>
RecordBadScope == Record(<<"S", "u", "i", "s", "s", "e">>, "2022-05-01", "00:00", "200", "0", "50")
RecordBadDate == Record(France, "01/05/2022", "00:00", "200", "0", "50")
RecordBadField == Record(France, "2022-05-01", "00:00", "ND", "0", "50")
RecordShort == SubSeq(RecordA, 1, 12)
RecordGap == Record(France, "2022-03-27", "02:30", "200", "0", "50")
RecordNegative == Record(France, "2022-05-01", "00:00", "200", "0", "-30")
RecordTwoBad == Record(France, "2022-05-01", "00:15", "200", "ND", "-30")

RecordPool ==
    {RecordA, RecordB, RecordEnd, RecordEndExact, RecordShortPrefix, RecordBadScope,
     RecordBadDate, RecordBadField, RecordShort, RecordGap, RecordNegative, RecordTwoBad}

\* The files read may be given.
Tables == SeqsUpTo(RecordPool, MaxRows)

InitRead ==
    /\ MainParked
    /\ DaysParked
    /\ table \in Tables
    /\ read_pc = "reading"
    /\ read_res = <<>>
    /\ ConvParked
    /\ PtsParked
    /\ InfluxParked
    /\ RteParked
    /\ ValParked
    /\ EcoParked

\* read(path) runs to its end.
Read_File ==
    /\ read_pc = "reading"
    /\ read_res' = ReadTable(table)
    /\ read_pc' = "returned"
    /\ UNCHANGED table
    /\ UNCHANGED notRead

NextRead == Read_File

SpecRead == InitRead /\ [][NextRead]_vars

----------------------------------------------------------------------------
(* source/rte/mod.rs: DailyRow to Point                                    *)

\* The value of a quantity of a DailyRow.
RowValue(l, key) == CHOOSE v \in MapGet(l.values, key) : TRUE

\* The .field(key, value!(line.<key>)) calls of Point::from, in their order.
ConvertedFields ==
    <<"generation_total", "oil", "coal", "gas", "nuclear", "wind", "solar", "hydro",
      "pumped_storage", "bioenergy", "co2">>

\* value!(line.<key>): pumped_storage is an i64, the others are u64.
FieldValue(l, key) ==
    IF key = "pumped_storage" THEN ValueFromI64(RowValue(l, key))
    ELSE ValueFromU64(RowValue(l, key))

RECURSIVE BuildFields(_, _)
\* PointBuilder::field for the first k entries of ConvertedFields.
BuildFields(l, k) ==
    IF k = 0 THEN {}
    ELSE MapInsert(BuildFields(l, k - 1), ConvertedFields[k], FieldValue(l, ConvertedFields[k]))

\* line.date.with_timezone(&Utc): minutes since 1970-01-01T00:00Z
ToUtc(date) == date.day * 1440 + date.minute - date.offset

\* impl From<DailyRow> for Point
PointFromRow(l) ==
    [name |-> "eco2mix", tags |-> {}, fields |-> BuildFields(l, Len(ConvertedFields)),
     timestamp |-> <<ToUtc(l.date)>>]

\* Points of the rows taken last to first.
PointsFromRows_Reversed(rows) ==
    [k \in 1..Len(rows) |-> PointFromRow(rows[Len(rows) + 1 - k])]

\* impl From<Vec<DailyRow>> for Points
PointsFromRows(rows) == [k \in 1..Len(rows) |-> PointFromRow(rows[k])]

\* The rows Point::from may be given: every quantity small or at the top of
\* its type, pumped storage of either sign.
DailyRows ==
    {[date |-> [day |-> 19113, minute |-> 15, offset |-> 120],
      values |-> {<<key, f[key]>> : key \in FieldKeys \ {"pumped_storage"}}
                     \cup {<<"pumped_storage", p>>}] :
        f \in [FieldKeys \ {"pumped_storage"} -> {50, U64Max}], p \in {-30, 7}}

InitConvert ==
    /\ MainParked
    /\ DaysParked
    /\ ReadParked
    /\ line \in DailyRows
    /\ conv_point = <<>>
    /\ conv_pc = "converting"
    /\ PtsParked
    /\ InfluxParked
    /\ RteParked
    /\ ValParked
    /\ EcoParked

\* Point::from(line)
Convert ==
    /\ conv_pc = "converting"
    /\ conv_point' = PointFromRow(line)
    /\ conv_pc' = "converted"
    /\ UNCHANGED line
    /\ UNCHANGED notConv

NextConvert == Convert

SpecConvert == InitConvert /\ [][NextConvert]_vars

----------------------------------------------------------------------------
(* point.rs: calls of merge_with and tag_all on one batch                  *)

\* Batches the methods are called with: empty, one point, the same point
\* twice, points that already carry the tag keys used below.
Batches ==
    {<<>>, <<PointEco2mix>>, <<PointEco2mix, PointEco2mix>>, <<PointPreTagged, PointNoTime>>,
     <<PointNoTime, PointEco2mix, PointNoTime>>}

TagKeys == {"source", "region"}
TagValues == {"rte", "ecowatt"}

\* One call on the batch: the method, its arguments, the batch before and after.
Call(op, other, key, value, before, after) ==
    [op |-> op, other |-> other, key |-> key, value |-> value,
     before |-> before, after |-> after]

InitPoints ==
    /\ MainParked
    /\ DaysParked
    /\ ReadParked
    /\ ConvParked
    /\ pts \in Batches
    /\ pts_calls = <<>>
    /\ pts_pc = "ready"
    /\ InfluxParked
    /\ RteParked
    /\ ValParked
    /\ EcoParked

\* pts.merge_with(other)
Points_MergeWith ==
    /\ pts_pc = "ready"
    /\ Len(pts_calls) < MaxCalls
    /\ \E other \in Batches :
        /\ pts' = MergeWith(pts, other)
        /\ pts_calls' = Append(pts_calls, Call("merge_with", other, "", "", pts, pts'))
    /\ UNCHANGED pts_pc
    /\ UNCHANGED notPts

\* pts.tag_all(key, value)
Points_TagAll ==
    /\ pts_pc = "ready"
    /\ Len(pts_calls) < MaxCalls
    /\ \E key \in TagKeys, value \in TagValues :
        /\ pts' = TagAll(pts, key, value)
        /\ pts_calls' = Append(pts_calls, Call("tag_all", <<>>, key, value, pts, pts'))
    /\ UNCHANGED pts_pc
    /\ UNCHANGED notPts

NextPoints ==
    \/ Points_MergeWith
    \/ Points_TagAll

SpecPoints == InitPoints /\ [][NextPoints]_vars

----------------------------------------------------------------------------
(* sink/influxdb.rs: InfluxDB::sink                                        *)

\* Utc::now() at the start of sink()
UtcNow == {9, 10}

\* fn line(point, timestamp): the point's name, tags and fields, and its
\* timestamp or, when it has none, the given one.
Line(point, timestamp) ==
    [name |-> point.name, tags |-> point.tags, fields |-> point.fields,
     timestamp |-> IF point.timestamp = <<>> THEN timestamp ELSE point.timestamp[1]]

\* Lines that each take an instant of their own when the point has none.
Body_NowPerLine(ps, now) == [k \in 1..Len(ps) |-> Line(ps[k], now + k)]

\* lines.join("\n"): one line per point, in the batch's order
Body(ps, now) == [k \in 1..Len(ps) |-> Line(ps[k], now)]

\* A Url parses from the host string in Config::build; one that cannot be a
\* base ("mailto:ops@example.org") makes join("/api/v2/write") fail.
Hosts == {"base", "cannot-be-a-base"}
JoinOk(h) == h = "base"

\* StatusCode::is_success
IsSuccess(status) == status \in 200..299

\* What send() gives back: Err(reqwest::Error), or a response with a status
\* and a body that text() can or cannot read.
Responses ==
    [status : {199, 200, 204, 299, 300, 401, 500}, body : {"", "unauthorized"},
     readable : BOOLEAN]

\* response.text() that gives up the body.
ResponseText_Dropped(response) == ""

\* response.text().unwrap_or("Failed to retrieve response text")
ResponseText(response) ==
    IF response.readable THEN response.body ELSE "Failed to retrieve response text"

\* SinkResult<()> of sink(), or the panic of expect("invalid URL")
SinkOutcome(kind, status, text) == [kind |-> kind, status |-> status, text |-> text]
SinkOk == SinkOutcome("Ok", 0, "")
SinkPanic == SinkOutcome("panic", 0, "invalid URL")
ErrorRequest == SinkOutcome("Request", 0, "failed to send request")
ErrorWrite(status, text) == SinkOutcome("Write", status, text)

InitInflux ==
    /\ MainParked
    /\ DaysParked
    /\ ReadParked
    /\ ConvParked
    /\ PtsParked
    /\ ifx_host \in Hosts
    /\ ifx_points \in Batches
    /\ ifx_sent = <<>>
    /\ ifx_response = <<>>
    /\ ifx_result = <<>>
    /\ ifx_pc = "sink"
    /\ RteParked
    /\ ValParked
    /\ EcoParked

\* sink(): host.join(..).expect("invalid URL") panics
Sink_JoinPanic ==
    /\ ifx_pc = "sink"
    /\ ~JoinOk(ifx_host)
    /\ ifx_result' = <<SinkPanic>>
    /\ ifx_pc' = "panicked"
    /\ UNCHANGED <<ifx_host, ifx_points, ifx_sent, ifx_response>>
    /\ UNCHANGED notInflux

\* sink(): send() fails, map_err(Error::Request)?
Sink_SendErr ==
    /\ ifx_pc = "sink"
    /\ JoinOk(ifx_host)
    /\ \E now \in UtcNow : ifx_sent' = Append(ifx_sent, Body(ifx_points, now))
    /\ ifx_result' = <<ErrorRequest>>
    /\ ifx_pc' = "returned"
    /\ UNCHANGED <<ifx_host, ifx_points, ifx_response>>
    /\ UNCHANGED notInflux

\* sink(): send() gives a response; Error::Write unless its status is a success
Sink_Response ==
    /\ ifx_pc = "sink"
    /\ JoinOk(ifx_host)
    /\ \E now \in UtcNow : ifx_sent' = Append(ifx_sent, Body(ifx_points, now))
    /\ \E response \in Responses :
        /\ ifx_response' = <<response>>
        /\ ifx_result' =
              IF ~IsSuccess(response.status)
              THEN <<ErrorWrite(response.status, ResponseText(response))>>
              ELSE <<SinkOk>>
    /\ ifx_pc' = "returned"
    /\ UNCHANGED <<ifx_host, ifx_points>>
    /\ UNCHANGED notInflux

NextInflux ==
    \/ Sink_JoinPanic
    \/ Sink_SendErr
    \/ Sink_Response

SpecInflux == InitInflux /\ [][NextInflux]_vars

----------------------------------------------------------------------------
(* source/rte/mod.rs: collect over a date range                            *)

\* from_date and to_date of the configuration, up to the last date.
RteDates == (MaxDate - MaxDays)..MaxDate

\* Statuses of the responses to the archive request.
HttpStatuses == {200, 404, 500}

\* The variants of DownloadError and ExtractionError.
DownloadErrors == {"CreateFile", "Http", "Io"}
ExtractionErrors == {"OpenFile", "CreateFile", "Zip", "FileNotFound", "Copy"}

\* The files a day's archive may hold: two rows and the closing line, a row
\* after the closing line, the closing line alone, a row of another scope, a
\* field that does not parse, a local time that does not exist.
DayTables ==
    {<<RecordA, RecordB, RecordEnd>>, <<RecordB, RecordEnd, RecordA>>, <<RecordEnd>>,
     <<RecordA, RecordBadScope>>, <<RecordA, RecordBadField, RecordEnd>>, <<RecordGap>>}

\* enum Error { Download, Extraction, Data }
RteError(stage, kind, data) == [stage |-> stage, kind |-> kind, data |-> data]

\* Result<Points, Error> of collect
RteOk(ps) == [kind |-> "Ok", points |-> ps, err |-> RteError("", "", NoDataErr)]
RteErr(e) == [kind |-> "Err", points |-> <<>>, err |-> e]

\* One stage of a pass of the loop: its day, how it ended, the rows read.
Stage(stage, day, result, rows) ==
    [stage |-> stage, day |-> day, result |-> result, rows |-> rows]

\* An error of a stage is logged and the loop goes on with the next day.
AfterStageErr_Skip == "next"

\* .map(|lines| lines.into())? : the first error of a stage leaves collect
AfterStageErr == "returned"

InitRte ==
    /\ MainParked
    /\ DaysParked
    /\ ReadParked
    /\ ConvParked
    /\ PtsParked
    /\ InfluxParked
    /\ rte_cfg \in [from_date : RteDates, to_date : RteDates]
    /\ rte_iter = IterDays(rte_cfg.from_date, rte_cfg.to_date)
    /\ rte_day = MinDate
    /\ rte_points = PointsNew
    /\ rte_log = <<>>
    /\ rte_res = <<>>
    /\ rte_status = 0
    /\ rte_pc = "next"
    /\ ValParked
    /\ EcoParked

\* for date in iter_days(..): next() returns Some(date)
Rte_NextSome ==
    /\ rte_pc = "next"
    /\ rte_iter.cur <= rte_iter.to
    /\ Succ(rte_iter.cur) # <<>>
    /\ rte_iter' = [rte_iter EXCEPT !.cur = Succ(rte_iter.cur)[1]]
    /\ rte_day' = rte_iter.cur
    /\ rte_pc' = "download"
    /\ UNCHANGED <<rte_cfg, rte_points, rte_log, rte_res, rte_status>>
    /\ UNCHANGED notRte

\* for date in iter_days(..): next() panics in succ()
Rte_NextPanic ==
    /\ rte_pc = "next"
    /\ rte_iter.cur <= rte_iter.to
    /\ Succ(rte_iter.cur) = <<>>
    /\ rte_pc' = "panicked"
    /\ UNCHANGED <<rte_cfg, rte_iter, rte_day, rte_points, rte_log, rte_res, rte_status>>
    /\ UNCHANGED notRte

\* for date in iter_days(..): next() returns None, collect returns Ok(points)
Rte_NextNone ==
    /\ rte_pc = "next"
    /\ ~(rte_iter.cur <= rte_iter.to)
    /\ rte_res' = <<RteOk(rte_points)>>
    /\ rte_pc' = "returned"
    /\ UNCHANGED <<rte_cfg, rte_iter, rte_day, rte_points, rte_log, rte_status>>
    /\ UNCHANGED notRte

\* What a failed stage leaves: the error returned, or the loop going on.
StageFailed(e) ==
    /\ rte_pc' = AfterStageErr
    /\ rte_res' = IF AfterStageErr = "returned" THEN <<RteErr(e)>> ELSE rte_res

\* download(date, folder).map_err(Error::Download): get(url) is Ok for a
\* response of any status, and copy_to stores its body; the status is not read.
Rte_Download ==
    /\ rte_pc = "download"
    /\ \E outcome \in {"ok"} \cup DownloadErrors :
        IF outcome = "ok"
        THEN /\ rte_log' = Append(rte_log, Stage("download", rte_day, "ok", <<>>))
             /\ rte_status' \in HttpStatuses
             /\ rte_pc' = "extract"
             /\ UNCHANGED rte_res
        ELSE /\ rte_log' = Append(rte_log, Stage("download", rte_day, "err", <<>>))
             /\ rte_status' = 0
             /\ StageFailed(RteError("Download", outcome, NoDataErr))
    /\ UNCHANGED <<rte_cfg, rte_iter, rte_day, rte_points>>
    /\ UNCHANGED notRte

\* .and_then(|file_path| extract(file_path).map_err(Error::Extraction))
Rte_Extract ==
    /\ rte_pc = "extract"
    /\ \E outcome \in {"ok"} \cup ExtractionErrors :
        IF outcome = "ok"
        THEN /\ rte_log' = Append(rte_log, Stage("extract", rte_day, "ok", <<>>))
             /\ rte_pc' = "read"
             /\ UNCHANGED rte_res
        ELSE /\ rte_log' = Append(rte_log, Stage("extract", rte_day, "err", <<>>))
             /\ StageFailed(RteError("Extraction", outcome, NoDataErr))
    /\ UNCHANGED <<rte_cfg, rte_iter, rte_day, rte_points, rte_status>>
    /\ UNCHANGED notRte

\* .and_then(|file_path| read(file_path).map_err(Error::Data))
\* .map(|lines| lines.into())?; points.merge_with(day_points)
Rte_Read ==
    /\ rte_pc = "read"
    /\ \E t \in DayTables :
        LET r == ReadTable(t)
        IN  CASE r.kind = "Ok" ->
                 /\ rte_log' = Append(rte_log, Stage("read", rte_day, "ok", r.rows))
                 /\ rte_points' = MergeWith(rte_points, PointsFromRows(r.rows))
                 /\ rte_pc' = "next"
                 /\ UNCHANGED rte_res
              [] r.kind = "Err" ->
                 /\ rte_log' = Append(rte_log, Stage("read", rte_day, "err", <<>>))
                 /\ StageFailed(RteError("Data", r.err.kind, r.err))
                 /\ UNCHANGED rte_points
              [] r.kind = "Panic" ->
                 /\ rte_log' = Append(rte_log, Stage("read", rte_day, "panic", <<>>))
                 /\ rte_pc' = "panicked"
                 /\ UNCHANGED <<rte_points, rte_res>>
    /\ UNCHANGED <<rte_cfg, rte_iter, rte_day, rte_status>>
    /\ UNCHANGED notRte

NextRte ==
    \/ Rte_NextSome
    \/ Rte_NextPanic
    \/ Rte_NextNone
    \/ Rte_Download
    \/ Rte_Extract
    \/ Rte_Read

SpecRte == InitRte /\ [][NextRte]_vars

----------------------------------------------------------------------------
(* point.rs: Value::from on the integer types                              *)

\* Value::from is called with any value of any of the integer types.
InitValue ==
    /\ MainParked
    /\ DaysParked
    /\ ReadParked
    /\ ConvParked
    /\ PtsParked
    /\ InfluxParked
    /\ RteParked
    /\ \E t \in IntTypes :
        \E v \in (IF t.signed THEN -(2^(t.bits - 1)) ELSE 0) ..
                 (IF t.signed THEN 2^(t.bits - 1) - 1 ELSE 2^t.bits - 1) :
            val_in = [type |-> t.name, val |-> v]
    /\ val_out = <<>>
    /\ val_pc = "calling"
    /\ EcoParked

\* Value::from(val)
Value_From ==
    /\ val_pc = "calling"
    /\ \E t \in IntTypes :
        /\ t.name = val_in.type
        /\ val_out' = <<ValueFromInt(t, val_in.val)>>
    /\ val_pc' = "returned"
    /\ UNCHANGED val_in
    /\ UNCHANGED notVal

NextValue == Value_From

SpecValue == InitValue /\ [][NextValue]_vars

----------------------------------------------------------------------------
(* source/rte/ecowatt.rs: EcoWatt::collect                                 *)

\* EcoWattSignal { day, day_value, values: Vec<EcoWattValue { hour, value }> };
\* day is in minutes since 1970-01-01T00:00Z.
EcoWattSignals ==
    {[day |-> 19113 * 1440, day_value |-> 1,
      values |-> <<[hour |-> 0, value |-> 1], [hour |-> 1, value |-> 3]>>],
     [day |-> 19114 * 1440, day_value |-> 2,
      values |-> <<[hour |-> 5, value |-> 2], [hour |-> 0, value |-> 1],
                   [hour |-> 5, value |-> 2]>>],
     [day |-> 19115 * 1440, day_value |-> 3, values |-> <<>>]}

\* Point::builder("ecowatt_signal").field("value", value!(..)).timestamp(ts).build()
SignalPoint(v, ts) ==
    [name |-> "ecowatt_signal", tags |-> {},
     fields |-> {<<"value", ValueFromInt(CHOOSE t \in IntTypes : t.name = "u32", v)>>},
     timestamp |-> <<ts>>]

\* The points of a signal: its daily value at its day, then each of its
\* values at day + Duration::hours(hour), in their order.
SignalPoints(signal) ==
    <<SignalPoint(signal.day_value, signal.day)>> \o
        [k \in 1..Len(signal.values) |->
            SignalPoint(signal.values[k].value, signal.day + 60 * signal.values[k].hour)]

\* DataSourceResult<Points> of collect
EcoResult(kind, ps) == [kind |-> kind, points |-> ps]

RECURSIVE EcoCollect_AllSignals(_)
\* collect that goes through every signal of the response.
EcoCollect_AllSignals(response) ==
    IF response = <<>> THEN EcoResult("Request", <<>>)
    ELSE IF response[1] = <<>> THEN EcoResult("NoSignal", <<>>)
    ELSE EcoResult("Ok", SignalPoints(response[1][1]) \o
                         EcoCollect_AllSignals(<<Tail(response[1])>>).points)

\* collect: the request, then signals.get(0).ok_or(Error::NoSignal)?, then the
\* points of that signal
EcoCollect(response) ==
    IF response = <<>> THEN EcoResult("Request", <<>>)
    ELSE IF response[1] = <<>> THEN EcoResult("NoSignal", <<>>)
    ELSE EcoResult("Ok", SignalPoints(response[1][1]))

InitEcoWatt ==
    /\ MainParked
    /\ DaysParked
    /\ ReadParked
    /\ ConvParked
    /\ PtsParked
    /\ InfluxParked
    /\ RteParked
    /\ ValParked
    /\ eco_cfg \in [from_date : RteDates, to_date : RteDates]
    /\ eco_response = <<>>
    /\ eco_res = <<>>
    /\ eco_pc = "collect"

\* EcoWatt::collect: the request fails, or answers with a list of signals
EcoWatt_Collect ==
    /\ eco_pc = "collect"
    /\ eco_response' \in {<<>>} \cup {<<s>> : s \in SeqsUpTo(EcoWattSignals, MaxPoints)}
    /\ eco_res' = <<EcoCollect(eco_response')>>
    /\ eco_pc' = "returned"
    /\ UNCHANGED eco_cfg
    /\ UNCHANGED notEco

NextEcoWatt == EcoWatt_Collect

SpecEcoWatt == InitEcoWatt /\ [][NextEcoWatt]_vars

----------------------------------------------------------------------------
(* Properties of the runner                                                *)

Events(op) == {k \in 1..Len(log) : log[k].op = op}

Names(comps) == [k \in 1..Len(comps) |-> comps[k].name]

\* A point as the runner is to hand it on: its source tag is the component name.
Stamped(p, name) ==
    [p EXCEPT !.tags = {q \in p.tags : q[1] # "source"} \cup {<<"source", name>>}]

RECURSIVE ExpectedBatch(_)
\* The stamped results of the successful collect() calls of a history, in call order.
ExpectedBatch(h) ==
    IF h = <<>> THEN <<>>
    ELSE LET e == h[Len(h)]
             before == ExpectedBatch(SubSeq(h, 1, Len(h) - 1))
         IN  IF e.op = "collect" /\ e.result = "ok"
             THEN before \o [k \in 1..Len(e.points) |-> Stamped(e.points[k], e.name)]
             ELSE before

RECURSIVE Origins(_)
\* For each point of the batch, the component whose collect() produced it.
Origins(h) ==
    IF h = <<>> THEN <<>>
    ELSE LET e == h[Len(h)]
             before == Origins(SubSeq(h, 1, Len(h) - 1))
         IN  IF e.op = "collect" /\ e.result = "ok"
             THEN before \o [k \in 1..Len(e.points) |-> e.name]
             ELSE before

\* C1: no sink() is invoked until collect() has returned successfully for every
\* source of the topology: each sink call in the history is preceded by a
\* successful collect call of every component of data_sources.
C1_CollectBeforeDeliver ==
    \A k \in Events("sink") :
        \A c \in 1..Len(data_sources) :
            \E m \in 1..(k - 1) :
                /\ log[m].op = "collect"
                /\ log[m].name = data_sources[c].name
                /\ log[m].result = "ok"

\* C1 witness: a sink is invoked in a run over two sources.
C1_Witness ==
    /\ Len(data_sources) = 2
    /\ Events("sink") # {}

\* C2: a failing collect() ends the run there with that source's error: it is
\* the last call of the history (no later source is collected, no sink is
\* invoked, nothing is delivered), the run has left with the error of that
\* source, and the sources before it were collected.
C2_CollectFailureAborts ==
    \A k \in Events("collect") :
        log[k].result = "err" =>
            /\ k = Len(log)
            /\ Events("sink") = {}
            /\ pc = "exit_err"
            /\ err.kind = "Collect"
            /\ err.name = log[k].name

\* C2 witness: the second of two sources fails after the first returned points,
\* with a sink configured.
C2_Witness ==
    /\ Len(log) = 2
    /\ log[1].result = "ok"
    /\ log[1].points # <<>>
    /\ log[2].op = "collect"
    /\ log[2].result = "err"
    /\ Len(sinks) >= 1

\* C2 witness of the other half: the first of two sources fails.
C2_WitnessFirst ==
    /\ Len(log) = 1
    /\ log[1].result = "err"
    /\ Len(data_sources) = 2

\* C3: a failing sink() ends the run there with that sink's error: it is the
\* last call of the history (no later sink is invoked and no call follows to
\* undo the sinks before it, which all returned Ok).
C3_SinkFailureAborts ==
    \A k \in Events("sink") :
        log[k].result = "err" =>
            /\ k = Len(log)
            /\ pc = "exit_err"
            /\ err.kind = "Deliver"
            /\ err.name = log[k].name
            /\ \A m \in Events("sink") : m < k => log[m].result = "ok"

\* C3 witness: the first of two sinks fails.
C3_Witness ==
    /\ Len(sinks) = 2
    /\ Events("sink") # {}
    /\ \A k \in Events("sink") : log[k].result = "err" /\ log[k].name = sinks[1].name

\* C3 witness of the other half: the second sink fails after the first took the batch.
C3_WitnessSecond ==
    \E k, m \in Events("sink") : k < m /\ log[k].result = "ok" /\ log[m].result = "err"

\* C4: every sink that is invoked receives the same complete batch, the
\* concatenation of the stamped results of all sources, and the runner's batch
\* is that same value during the whole delivery.
C4_SameCompleteBatch ==
    /\ \A k \in Events("sink") : log[k].points = ExpectedBatch(log)
    /\ pc \in {"delivering", "exit_ok"} => points = ExpectedBatch(log)
    /\ Events("sink") # {} =>
           [k \in 1..Len(data_sources) |-> log[k].name] = Names(data_sources)

\* C4 witness: two sinks were given a batch made of the points of two sources.
C4_Witness ==
    /\ Len(log) = 4
    /\ log[1].points # <<>>
    /\ log[2].points # <<>>
    /\ log[3].op = "sink"
    /\ log[4].op = "sink"

\* C5: every point of the batch, while it is built and when it is handed to a
\* sink, carries exactly one source tag, whose value is the name of the
\* component whose collect() produced the point.
C5_SourceTag ==
    LET tagged(ps) ==
            /\ Len(ps) = Len(Origins(log))
            /\ \A k \in 1..Len(ps) : MapGet(ps[k].tags, "source") = {Origins(log)[k]}
    IN  /\ pc \in {"collecting", "delivering", "exit_ok", "exit_err", "panicked"} => tagged(points)
        /\ \A k \in Events("sink") : tagged(log[k].points)

\* C5 witness: a sink is handed a batch of two sources, the first of which set a
\* source tag of its own on a point.
C5_Witness ==
    /\ Len(log) >= 3
    /\ log[1].op = "collect" /\ log[2].op = "collect" /\ log[3].op = "sink"
    /\ log[1].name # log[2].name
    /\ \E k \in 1..Len(log[1].points) : MapGet(log[1].points[k].tags, "source") = {"preset"}
    /\ log[2].points # <<>>

\* The names of the calls of one kind, in call order.
RECURSIVE CallNames(_, _)
CallNames(h, op) ==
    IF h = <<>> THEN <<>>
    ELSE LET before == CallNames(SubSeq(h, 1, Len(h) - 1), op)
         IN  IF h[Len(h)].op = op THEN Append(before, h[Len(h)].name) ELSE before

IsPrefix(s, t) == Len(s) <= Len(t) /\ \A k \in 1..Len(s) : s[k] = t[k]

Keys(entries) == [k \in 1..Len(entries) |-> entries[k].key]

\* C6: the sources are collected in the order in which the configuration
\* declares them, and the sinks are delivered to in their declared order: the
\* names of the collect() calls and of the sink() calls are each a prefix of the
\* declared keys.
C6_DeclaredOrder ==
    /\ IsPrefix(CallNames(log, "collect"), Keys(cfg.sources))
    /\ IsPrefix(CallNames(log, "sink"), Keys(cfg.sinks))

\* What does hold of the order: the calls follow the order of the topology's
\* vectors, which is the order in which the HashMaps handed out the entries.
C6_TopologyOrder ==
    /\ IsPrefix(CallNames(log, "collect"), Names(data_sources))
    /\ IsPrefix(CallNames(log, "sink"), Names(sinks))

Unregistered(kind, entries) ==
    {entries[k].key : k \in 1..Len(entries)} \ {r.name : r \in Registrations(kind)}

\* Every entry under a registered name has a configuration that coerces and builds.
OthersValid ==
    /\ cfg.pre = "ok"
    /\ \A k \in 1..Len(cfg.sources) : cfg.sources[k].value = "valid"
    /\ \A k \in 1..Len(cfg.sinks) : cfg.sinks[k].value = "valid"

\* C7: with an unregistered source or sink type in the configuration, the
\* execution never gets to run: no collect() and no sink() is ever invoked and it
\* does not end well; when it has ended and the rest of the configuration is
\* valid, the error is the unknown-component error naming an unregistered type
\* of the configuration.
C7_UnknownTypeFailsBeforeRun ==
    (Unregistered("source", cfg.sources) \cup Unregistered("sink", cfg.sinks) # {}) =>
        /\ log = <<>>
        /\ pc \in {"read", "build_sources", "build_sinks", "exit_err"}
        /\ (pc = "exit_err" /\ OthersValid) =>
               /\ err.cause.kind = "Unknown"
               /\ err.cause.name = err.name
               /\ \/ err.kind = "Source" /\ err.name \in Unregistered("source", cfg.sources)
                  \/ err.kind = "Sink" /\ err.name \in Unregistered("sink", cfg.sinks)

\* C7 witness: read has failed on an unregistered sink type after it built a
\* valid source and a valid sink.
C7_Witness ==
    /\ pc = "exit_err"
    /\ OthersValid
    /\ err.kind = "Sink"
    /\ err.cause.kind = "Unknown"
    /\ Len(data_sources) >= 1
    /\ Len(sinks) >= 1

\* C8: Registration::build invokes a builder if and only if a registration of
\* exactly the requested name exists, and then the builder of that registration;
\* otherwise it returns Unknown carrying the requested name.
C8_BuildExactName ==
    \A k \in 1..Len(builds) :
        LET b == builds[k]
            registered == b.name \in (IF b.kind = "source" THEN {"rte", "rte-ecowatt"}
                                      ELSE {"console", "influxdb"})
        IN  /\ (b.res.builder # "none") <=> registered
            /\ registered => b.res.builder = b.name /\ b.res.kind # "Unknown"
            /\ ~registered => b.res.kind = "Unknown" /\ b.res.name = b.name

\* C8 witness: a build under a registered name ran its builder and a build
\* under a name differing only in case returned Unknown.
C8_Witness ==
    /\ \E k \in 1..Len(builds) : builds[k].res.builder = builds[k].name
    /\ \E k \in 1..Len(builds) : builds[k].name \in {"RTE", "Console"}
                                 /\ builds[k].res.kind = "Unknown"

\* C9 as stated: under a registered name, every failure of build is
\* Config(cause, name), whether the coercion or the build step failed.
C9_SameErrorKind ==
    \A k \in 1..Len(builds) :
        (builds[k].res.builder # "none" /\ builds[k].res.kind # "Ok") =>
            /\ builds[k].res.kind = "Config"
            /\ builds[k].res.name = builds[k].name

\* C9 amended: under a registered name, a raw configuration that cannot be
\* coerced fails with Toml(cause), which carries no component name, and a
\* failing build step fails with Config(cause, name).
C9_ErrorKinds ==
    \A k \in 1..Len(builds) :
        LET b == builds[k]
        IN  b.res.builder # "none" =>
                /\ (b.value = "malformed" \/ (b.value = "bad_host" /\ b.name # "influxdb")) =>
                       b.res.kind = "Toml" /\ b.res.name = ""
                /\ (b.value = "bad_host" /\ b.name = "influxdb") =>
                       b.res.kind = "Config" /\ b.res.name = b.name
                /\ b.value = "valid" => b.res.kind = "Ok"

\* C9 witness: a build under a registered name failed in the coercion.
C9_Witness ==
    \E k \in 1..Len(builds) :
        /\ builds[k].res.builder # "none"
        /\ builds[k].value = "malformed"
        /\ pc = "exit_err"

\* C9 witness of the other case: the build step of influxdb failed.
C9_WitnessBuildStep ==
    \E k \in 1..Len(builds) : builds[k].res.kind = "Config"

----------------------------------------------------------------------------
(* Properties of the day enumeration                                       *)

\* C10: for from <= to, iter_days(from, to) yields the to - from + 1 days of
\* the inclusive range in ascending order, each once; for from > to it yields
\* none. The iteration does not end in a panic, and when it is exhausted the
\* days yielded are exactly those.
C10_InclusiveRange ==
    LET from == days_in[1]
        to == days_in[2]
        expected == IF from <= to THEN [k \in 1..(to - from + 1) |-> from + k - 1] ELSE <<>>
    IN  /\ days_pc # "panicked"
        /\ days_pc = "done" => days = expected

\* The same away from the last representable date.
C10_BelowMaxDate ==
    LET from == days_in[1]
        to == days_in[2]
        expected == IF from <= to THEN [k \in 1..(to - from + 1) |-> from + k - 1] ELSE <<>>
    IN  (to < MaxDate \/ from > to) =>
            /\ days_pc # "panicked"
            /\ days_pc = "done" => days = expected

\* C11: as test_day_range asserts, for from < to the iteration yields one item
\* per day d with from <= d < to, in ascending order: to - from items, the k-th
\* for the day from + k - 1, so that the range of one day to the next yields one
\* item and a range of three days' distance three.
C11_HalfOpenRange ==
    LET from == days_in[1]
        to == days_in[2]
    IN  (days_pc = "done" /\ from < to) =>
            /\ Len(days) = to - from
            /\ \A k \in 1..Len(days) : days[k] = from + k - 1

----------------------------------------------------------------------------
(* Properties of read                                                      *)

\* The records of the pool whose first column begins with "RTE ne pourra".
SentinelRecords == {RecordEnd, RecordEndExact}

\* The records of the pool that are data rows without a flaw.
ValidRecords == {RecordA, RecordB}

\* The records of the pool whose first column is neither France nor a sentinel.
BadScopeRecords == {RecordBadScope, RecordShortPrefix}

\* Position of the first sentinel record of a table, Len + 1 when it has none.
FirstSentinel(t) ==
    LET ends == {k \in 1..Len(t) : t[k] \in SentinelRecords}
    IN  IF ends = {} THEN Len(t) + 1 ELSE CHOOSE k \in ends : \A m \in ends : k <= m

\* C12: the first record whose first column begins with the sentinel prefix
\* ends the iteration without error: no record at or after it is ever handed to
\* from_record (so none can raise an error), they add no row, the records
\* before it are validated in order up to the first that fails, and when all
\* of them are valid read returns Ok with exactly their rows.
C12_SentinelEndsIteration ==
    (read_pc = "returned" /\ FirstSentinel(table) <= Len(table)) =>
        LET s == FirstSentinel(table)
        IN  /\ \A k \in read_res.validated : k < s
            /\ read_res.kind = "Ok" =>
                   /\ Len(read_res.rows) = s - 1
                   /\ read_res.validated = 1..(s - 1)
            /\ (\A k \in 1..(s - 1) : table[k] \in ValidRecords) => read_res.kind = "Ok"
            /\ read_res.kind # "Ok" =>
                   \E m \in 1..(s - 1) :
                       /\ read_res.validated = 1..m
                       /\ table[m] \notin ValidRecords

\* C12 witness: a valid row, the trailer line, then a row that would not pass.
C12_Witness ==
    /\ read_pc = "returned"
    /\ table = <<RecordA, RecordEnd, RecordBadScope>>
    /\ read_res.kind = "Ok"
    /\ Len(read_res.rows) = 1

\* C13: a data row before the sentinel whose scope is not France makes read
\* fail for the day: read does not return Ok and yields no row, however valid
\* the other rows are; when the rows before it are valid the failure is
\* InvalidScope carrying that scope.
C13_InvalidScopeFailsDay ==
    read_pc = "returned" =>
        \A k \in 1..(FirstSentinel(table) - 1) :
            table[k] \in BadScopeRecords =>
                /\ read_res.kind # "Ok"
                /\ read_res.rows = <<>>
                /\ (\A m \in 1..(k - 1) : table[m] \in ValidRecords) =>
                       /\ read_res.kind = "Err"
                       /\ read_res.err.kind = "InvalidScope"
                       /\ read_res.err.scope = table[k][1]

\* C13 witness: one row of another scope between two valid rows.
C13_Witness ==
    /\ read_pc = "returned"
    /\ table = <<RecordA, RecordBadScope, RecordB>>
    /\ read_res.err.kind = "InvalidScope"

\* The record handed to from_record last, and whether from_record failed on it.
LastValidated == CHOOSE k \in read_res.validated : \A m \in read_res.validated : m <= k
FailedAt(k) == read_res.kind # "Ok" /\ k = LastValidated

\* A row of scope France whose date and time are of the fixed formats and
\* denote one instant in Europe/Paris.
WellFormedRows ==
    {k \in read_res.validated :
        /\ Len(table[k]) >= 4
        /\ table[k][1] = France
        /\ table[k][3] \in {"2022-05-01", "2022-03-27", "2022-10-30"}
        /\ table[k][4] \in {"00:00", "00:15", "02:30"}
        /\ ~(table[k][3] \in {"2022-03-27", "2022-10-30"} /\ table[k][4] = "02:30")}

\* The numeric columns, by index, with the name from_record gives them.
NumericColumns == {<<FieldSpecs[k].index, FieldSpecs[k].name>> : k \in 1..Len(FieldSpecs)}

\* The texts of the feed that are unsigned numbers, and those that are signed numbers.
UnsignedTexts == {"0", "7", "50", "200", "255"}
SignedTexts == UnsignedTexts \cup {"-30"}

\* A numeric column that is absent from the record, or not a number of its type.
Absent(record, c) == Len(record) < c[1] + 1
NotNumeric(record, c) ==
    /\ ~Absent(record, c)
    /\ record[c[1] + 1] \notin (IF c[1] = 14 THEN SignedTexts ELSE UnsignedTexts)
Offending(record) == {c \in NumericColumns : Absent(record, c) \/ NotNumeric(record, c)}
FirstOffending(record) ==
    CHOOSE c \in Offending(record) : \A d \in Offending(record) : c[1] <= d[1]

\* C23: for a row of scope France with a well-formed date and time,
\* from_record succeeds exactly when every numeric column (indices 4..15 and
\* 17) is present and parses as its type; otherwise it fails on the first
\* offending column in index order, with MissingField(name) when the column is
\* absent and a parse error naming the column when its value is not a number
\* of the type (a negative value in an unsigned column included).
C23_NumericColumns ==
    read_pc = "returned" =>
        \A k \in WellFormedRows :
            /\ FailedAt(k) <=> Offending(table[k]) # {}
            /\ FailedAt(k) =>
                /\ read_res.kind = "Err"
                /\ read_res.err.name = FirstOffending(table[k])[2]
                /\ Absent(table[k], FirstOffending(table[k])) =>
                       read_res.err.kind = "MissingField"
                /\ NotNumeric(table[k], FirstOffending(table[k])) =>
                       read_res.err.kind = "Parse"

\* C23 witness: after a row that passes, a row with a text in the signed
\* column and a negative number in an unsigned column after it fails under
\* the name of the first of the two.
C23_Witness ==
    /\ read_pc = "returned"
    /\ table = <<RecordA, RecordTwoBad>>
    /\ read_res.err = DataErr("Parse", "Pumped storage", <<>>)

\* C23 witness: a row that ends before its last numeric columns fails with
\* MissingField under the name of the first column it lacks.
C23_WitnessMissing ==
    /\ read_pc = "returned"
    /\ table = <<RecordShort>>
    /\ read_res.err = DataErr("MissingField", "Solar", <<>>)

\* C23 witness: a negative number in an unsigned column is a parse error.
C23_WitnessNegative ==
    /\ read_pc = "returned"
    /\ table = <<RecordNegative, RecordA>>
    /\ read_res.err = DataErr("Parse", "CO2", <<>>)

\* C24: every data row before the sentinel ends in a DailyRow or in a
\* DataError returned to the caller, the rows whose date and time denote a
\* Europe/Paris local time that does not exist or is ambiguous included: read
\* returns Ok or Err, it never ends abnormally.
C24_RowOrDataError ==
    read_pc = "returned" => read_res.kind \in {"Ok", "Err"}

\* What does hold: read ends abnormally only on a row of scope France whose
\* date and time have the fixed formats.
C24_PanicOnlyOnLocalTime ==
    (read_pc = "returned" /\ read_res.kind \notin {"Ok", "Err"}) =>
        /\ table[LastValidated][1] = France
        /\ ParseDate(table[LastValidated][3]) # <<>>
        /\ ParseTime(table[LastValidated][4]) # <<>>

----------------------------------------------------------------------------
(* Properties of the conversion to points                                  *)

\* C14: the point made of a DailyRow has one field per numeric quantity of the
\* row, the two forecasts included, and the field read back by the key of a
\* quantity is exactly the row's value of it.
C14_RoundTrip ==
    conv_pc = "converted" =>
        /\ {f[1] : f \in conv_point.fields} = FieldKeys
        /\ \A key \in FieldKeys :
               {f.v : f \in MapGet(conv_point.fields, key)} = {RowValue(line, key)}

\* What does hold: the eleven quantities that are converted, within the range
\* of i64, are read back as they were.
C14_ConvertedInRange ==
    conv_pc = "converted" =>
        \A k \in 1..Len(ConvertedFields) :
            RowValue(line, ConvertedFields[k]) <= I64Max =>
                {f.v : f \in MapGet(conv_point.fields, ConvertedFields[k])} =
                    {RowValue(line, ConvertedFields[k])}

----------------------------------------------------------------------------
(* Properties of Points                                                    *)

\* The entries of a tag map under keys other than key.
OtherTags(tags, key) == {p \in tags : p[1] # key}

\* C15: merge_with on a batch of n points with a batch of m points leaves
\* n + m points: the n points first, in their order, then the m points in
\* their order; nothing is dropped or deduplicated.
C15_MergeAppends ==
    \A c \in 1..Len(pts_calls) :
        pts_calls[c].op = "merge_with" =>
            LET a == pts_calls[c].before
                b == pts_calls[c].other
                r == pts_calls[c].after
            IN  /\ Len(r) = Len(a) + Len(b)
                /\ \A k \in 1..Len(a) : r[k] = a[k]
                /\ \A k \in 1..Len(b) : r[Len(a) + k] = b[k]

\* C15 witness: a non-empty batch was merged with a different non-empty batch
\* that holds a point the first batch holds too.
C15_Witness ==
    \E c \in 1..Len(pts_calls) :
        /\ pts_calls[c].op = "merge_with"
        /\ pts_calls[c].before # <<>>
        /\ pts_calls[c].other # <<>>
        /\ pts_calls[c].other # pts_calls[c].before
        /\ \E k \in 1..Len(pts_calls[c].other) :
               \E n \in 1..Len(pts_calls[c].before) :
                   pts_calls[c].other[k] = pts_calls[c].before[n]

\* C16: tag_all(k, v) leaves every point with exactly one entry for k, of
\* value v, and leaves the number and order of the points and every point's
\* name, fields, timestamp and other tags as they were; after tag_all(k, v1)
\* and then tag_all(k, v2) the one entry for k has value v2.
C16_TagAllFrame ==
    \A c \in 1..Len(pts_calls) :
        pts_calls[c].op = "tag_all" =>
            LET a == pts_calls[c].before
                r == pts_calls[c].after
                key == pts_calls[c].key
            IN  /\ Len(r) = Len(a)
                /\ \A k \in 1..Len(r) :
                    /\ {p \in r[k].tags : p[1] = key} = {<<key, pts_calls[c].value>>}
                    /\ OtherTags(r[k].tags, key) = OtherTags(a[k].tags, key)
                    /\ r[k].name = a[k].name
                    /\ r[k].fields = a[k].fields
                    /\ r[k].timestamp = a[k].timestamp

\* C16 witness: a batch with a point that already had the key was tagged twice
\* in a row under that key, with two different values.
C16_Witness ==
    /\ Len(pts_calls) = 2
    /\ pts_calls[1].op = "tag_all"
    /\ pts_calls[2].op = "tag_all"
    /\ pts_calls[1].key = pts_calls[2].key
    /\ pts_calls[1].value # pts_calls[2].value
    /\ \E k \in 1..Len(pts_calls[1].before) :
           MapGet(pts_calls[1].before[k].tags, pts_calls[1].key) # {}
    /\ \E k \in 1..Len(pts) : OtherTags(pts[k].tags, pts_calls[1].key) # {}

----------------------------------------------------------------------------
(* Properties of the InfluxDB sink                                         *)

\* sink() is over: it returned or panicked.
SinkOver == ifx_pc \in {"returned", "panicked"}

\* The one request sent carries one line per point of the batch, in order.
WholeBatchSent ==
    /\ Len(ifx_sent) = 1
    /\ Len(ifx_sent[1]) = Len(ifx_points)
    /\ \A k \in 1..Len(ifx_points) :
        /\ ifx_sent[1][k].name = ifx_points[k].name
        /\ ifx_sent[1][k].tags = ifx_points[k].tags
        /\ ifx_sent[1][k].fields = ifx_points[k].fields

C25_TimestampOrOneNow ==
    /\ [](ifx_sent # <<>> =>
            /\ \A k \in 1..Len(ifx_points) :
                   ifx_points[k].timestamp # <<>> =>
                       ifx_sent[1][k].timestamp = ifx_points[k].timestamp[1]
            /\ \E now \in UtcNow :
                   \A k \in 1..Len(ifx_points) :
                       ifx_points[k].timestamp = <<>> => ifx_sent[1][k].timestamp = now)
    /\ [][ifx_points' = ifx_points]_vars

\* C25 witness: a batch with two points without a timestamp around one that
\* has its own was sent.
C25_Witness ==
    /\ ifx_pc = "returned"
    /\ ifx_points = <<PointNoTime, PointEco2mix, PointNoTime>>
    /\ Len(ifx_sent) = 1
    /\ ifx_sent[1][1].timestamp = ifx_sent[1][3].timestamp
    /\ ifx_sent[1][2].timestamp = 1
    /\ ifx_points[1].timestamp = <<>>

\* C26: in a run collect() is called at most once on each source and sink()
\* at most once on each sink: a call that succeeded is not repeated and a
\* call that failed is not retried, no call at all follows it.
C26_AtMostOnce ==
    /\ \A a, b \in 1..Len(log) :
           (log[a].op = log[b].op /\ log[a].name = log[b].name) => a = b
    /\ \A k \in 1..Len(log) : log[k].result # "ok" => k = Len(log)
    /\ Cardinality(Events("collect")) <= Len(data_sources)
    /\ Cardinality(Events("sink")) <= Len(sinks)

\* C26 witness: a run with two sources and two sinks whose second delivery
\* failed is over, each component called once.
C26_Witness ==
    /\ pc = "exit_err"
    /\ Len(data_sources) = 2
    /\ Len(sinks) = 2
    /\ Len(log) = 4
    /\ log[4].op = "sink"
    /\ log[4].result = "err"

\* config::read returned Ok(Topology).
TopologyProduced ==
    \/ pc \in {"collecting", "delivering", "exit_ok", "panicked"}
    \/ pc = "exit_err" /\ err.kind \in {"Collect", "Deliver"}

\* The components of one kind are named by the keys of the configuration,
\* each built by the registration of that very name, no name and no type twice.
NamedByTypeOnce(kind, comps, entries) ==
    /\ Len(comps) = Len(entries)
    /\ {comps[k].name : k \in 1..Len(comps)} = {entries[k].key : k \in 1..Len(entries)}
    /\ \A k \in 1..Len(comps) :
           \E b \in 1..Len(builds) :
               /\ builds[b].kind = kind
               /\ builds[b].name = comps[k].name
               /\ builds[b].res.kind = "Ok"
               /\ builds[b].res.builder = comps[k].name
               /\ builds[b].res.component = comps[k].component
    /\ \A a, b \in 1..Len(comps) :
           (comps[a].name = comps[b].name \/ comps[a].component = comps[b].component) => a = b

\* C27: in every topology config::read produces, each component's name is its
\* configuration key and also the registered type name it was built by, so the
\* names are pairwise distinct within the sources and within the sinks, and
\* there is at most one instance of each registered source type and of each
\* registered sink type.
C27_NameIsKeyIsType ==
    TopologyProduced =>
        /\ NamedByTypeOnce("source", data_sources, cfg.sources)
        /\ NamedByTypeOnce("sink", sinks, cfg.sinks)

\* C27 witness: a topology of two sources and two sinks was produced.
C27_Witness ==
    /\ TopologyProduced
    /\ Len(data_sources) = 2
    /\ Len(sinks) = 2
    /\ data_sources[1].name # data_sources[2].name

----------------------------------------------------------------------------
(* Properties of the end of a run                                          *)

\* The process is over: main returned Ok (status zero), returned Err, or panicked
\* (both a non-zero status).
Ended == pc \in {"exit_ok", "exit_err", "panicked"}
EndedInError == pc \in {"exit_err", "panicked"}

\* Every configured source was built and collected with success.
AllCollected ==
    /\ cfg.pre = "ok"
    /\ {log[k].name : k \in {e \in Events("collect") : log[e].result = "ok"}} =
           {cfg.sources[n].key : n \in 1..Len(cfg.sources)}
    /\ \A k \in Events("collect") : log[k].result = "ok"

\* Every configured sink was built and delivered to with success.
AllDelivered ==
    /\ cfg.pre = "ok"
    /\ {log[k].name : k \in {e \in Events("sink") : log[e].result = "ok"}} =
           {cfg.sinks[n].key : n \in 1..Len(cfg.sinks)}
    /\ \A k \in Events("sink") : log[k].result = "ok"

\* A configuration, collection or delivery failure has happened.
SomeFailure ==
    \/ pc # "read" /\ cfg.pre # "ok"
    \/ \E k \in 1..Len(builds) : builds[k].res.kind # "Ok"
    \/ \E k \in 1..Len(log) : log[k].result # "ok"

\* C18: a run ends with status zero exactly when every configured source was
\* collected and every configured sink was delivered to with success; any
\* configuration, collection or delivery failure ends the process in error;
\* and every run reaches one of the two ends.
C18_EndStates ==
    /\ [](Ended => (pc = "exit_ok" <=> (AllCollected /\ AllDelivered)))
    /\ [](SomeFailure => EndedInError)
    /\ <>Ended

\* C18 witness: a run with a source and a sink ended with status zero.
C18_Witness ==
    /\ pc = "exit_ok"
    /\ Len(cfg.sources) >= 1
    /\ Len(cfg.sinks) >= 1
    /\ AllCollected
    /\ AllDelivered

\* C18 witness: a run ended in error after its delivery failed.
C18_WitnessFailed ==
    /\ pc = "exit_err"
    /\ AllCollected
    /\ \E k \in Events("sink") : log[k].result = "err"

----------------------------------------------------------------------------
(* Properties of the rte source                                            *)

\* The stages of a kind in the history, by position.
Stages(stage) == {k \in 1..Len(rte_log) : rte_log[k].stage = stage}

\* The days downloaded, in the order of the downloads.
RECURSIVE Downloaded(_)
Downloaded(h) ==
    IF h = <<>> THEN <<>>
    ELSE LET before == Downloaded(SubSeq(h, 1, Len(h) - 1))
         IN  IF h[Len(h)].stage = "download" THEN Append(before, h[Len(h)].day) ELSE before

\* The points of the rows read, day after day, each day's rows in file order.
RECURSIVE DayPoints(_)
DayPoints(h) ==
    IF h = <<>> THEN <<>>
    ELSE LET e == h[Len(h)]
             before == DayPoints(SubSeq(h, 1, Len(h) - 1))
         IN  IF e.stage = "read" /\ e.result = "ok"
             THEN before \o [k \in 1..Len(e.rows) |-> PointFromRow(e.rows[k])]
             ELSE before

\* C19: a failure of the download, the extraction or the parsing of a day
\* ends collect there: no stage of that or a later day runs after it, collect
\* does not return Ok, and an error of the stage is what collect returns,
\* with no points.
C19_StageFailureAborts ==
    \A k \in 1..Len(rte_log) :
        rte_log[k].result # "ok" =>
            /\ k = Len(rte_log)
            /\ rte_pc \in {"returned", "panicked"}
            /\ rte_log[k].result = "err" =>
                /\ rte_pc = "returned"
                /\ rte_res[1].kind = "Err"
                /\ rte_res[1].points = <<>>
                /\ rte_res[1].err.stage =
                       CASE rte_log[k].stage = "download" -> "Download"
                         [] rte_log[k].stage = "extract" -> "Extraction"
                         [] rte_log[k].stage = "read" -> "Data"
            /\ rte_log[k].result = "panic" => rte_pc = "panicked" /\ rte_res = <<>>

\* C19 witness: a day was read with rows, a stage of a later day failed with
\* days of the range still to come, and collect returned the error.
C19_Witness ==
    /\ rte_pc = "returned"
    /\ rte_res[1].kind = "Err"
    /\ rte_points # <<>>
    /\ rte_log[Len(rte_log)].result = "err"
    /\ rte_log[Len(rte_log)].day < rte_cfg.to_date
    /\ rte_log[Len(rte_log)].day > rte_cfg.from_date

\* C19 witness: the failing stage was the parsing.
C19_WitnessParse ==
    /\ rte_pc = "returned"
    /\ rte_points # <<>>
    /\ rte_res[1].err.stage = "Data"
    /\ rte_res[1].err.kind = "InvalidScope"
    /\ rte_log[Len(rte_log)].day < rte_cfg.to_date

\* C20: when collect returns Ok, every day from from_date to to_date was
\* downloaded once, in ascending order, and the result is the points of each
\* day's rows in file order, day after day; with from_date after to_date
\* nothing is downloaded and the result is Ok and empty.
C20_ConcatenatedDays ==
    /\ (rte_pc = "returned" /\ rte_res[1].kind = "Ok") =>
        /\ Downloaded(rte_log) =
               [k \in 1..(rte_cfg.to_date - rte_cfg.from_date + 1) |-> rte_cfg.from_date + k - 1]
        /\ rte_res[1].points = DayPoints(rte_log)
    /\ rte_cfg.from_date > rte_cfg.to_date =>
        /\ rte_log = <<>>
        /\ rte_pc \in {"next", "returned"}
        /\ rte_pc = "returned" => rte_res = <<RteOk(<<>>)>>

\* C20 witness: three days were collected, two of them with rows, in files
\* with different rows.
C20_Witness ==
    /\ rte_pc = "returned"
    /\ rte_res[1].kind = "Ok"
    /\ rte_cfg.to_date - rte_cfg.from_date >= 2
    /\ \E a, b \in Stages("read") :
        /\ a < b
        /\ Len(rte_log[a].rows) = 2
        /\ rte_log[b].rows # <<>>
        /\ rte_log[a].rows # rte_log[b].rows

\* C20 witness: collect returned for a range with from_date after to_date.
C20_WitnessEmptyRange ==
    /\ rte_pc = "returned"
    /\ rte_cfg.from_date > rte_cfg.to_date

----------------------------------------------------------------------------
(* Properties of Value                                                     *)

\* C21: Value::from on an integer of any width, signed or unsigned, gives
\* Integer(i) with i equal to the value given.
C21_IntegerLossless ==
    val_pc = "returned" => val_out = <<Integer(val_in.val)>>

\* What does hold: the conversion is lossless unless the value is a u64 above
\* i64::MAX.
C21_LosslessUpToI64Max ==
    (val_pc = "returned" /\ val_in.val <= I64Max) => val_out = <<Integer(val_in.val)>>

\* The stage that ran last.
LastStage == rte_log[Len(rte_log)]

\* C22: within a day the stages run as download, extract, parse, each only
\* after the one before succeeded, a failure is reported under its stage, and
\* a response of a non-success status fails the download, so that extract
\* never runs on its body.
C22_StagesInOrderStatusChecked ==
    /\ \A k \in 1..Len(rte_log) :
        /\ rte_log[k].stage = "extract" =>
               /\ k > 1
               /\ rte_log[k - 1] = Stage("download", rte_log[k].day, "ok", <<>>)
        /\ rte_log[k].stage = "read" =>
               /\ k > 1
               /\ rte_log[k - 1] = Stage("extract", rte_log[k].day, "ok", <<>>)
    /\ (rte_log # <<>> /\ LastStage.stage \in {"extract", "read"}) => rte_status \in 200..299
    /\ (rte_pc = "extract") => rte_status \in 200..299

\* What does hold: the order of the stages and the stage of the error.
C22_StagesInOrder ==
    /\ \A k \in 1..Len(rte_log) :
        /\ rte_log[k].stage = "extract" =>
               /\ k > 1
               /\ rte_log[k - 1] = Stage("download", rte_log[k].day, "ok", <<>>)
        /\ rte_log[k].stage = "read" =>
               /\ k > 1
               /\ rte_log[k - 1] = Stage("extract", rte_log[k].day, "ok", <<>>)
    /\ (rte_pc = "returned" /\ rte_res[1].kind = "Err") =>
        rte_res[1].err.stage =
            CASE LastStage.stage = "download" -> "Download"
              [] LastStage.stage = "extract" -> "Extraction"
              [] LastStage.stage = "read" -> "Data"

----------------------------------------------------------------------------
(* Properties of the EcoWatt source                                        *)

C28_WitnessNoSignal ==
    /\ eco_pc = "returned"
    /\ eco_response = <<<<>>>>
    /\ eco_res[1].kind = "NoSignal"

====
